---- MODULE Spec2Model ----
(***************************************************************************)
(* The command dispatch and session engine of rust-forth-interactive-      *)
(* compiler (src/main.rs): the registry of command handlers, the           *)
(* tokenisation of an input line, the dispatch loop, the nested capture    *)
(* loop of command `i`, and the unified error type.                        *)
(*                                                                         *)
(* Text is a sequence of one-character strings, so that tokenisation,      *)
(* integer parsing and the concatenation of captured lines are computed    *)
(* character by character, as the code does.                               *)
(***************************************************************************)
EXTENDS Integers, Sequences, FiniteSets, TLC

(***************************************************************************)
(* Bounds of the model.                                                    *)
(***************************************************************************)
\* Lines read at the outer prompt `>> ` in one session.
MaxLines == 2
\* Lines read at the inner prompt `i> ` in one session (over all captures).
MaxCaptured == 2
\* Width, in bits, at which the engine's i64 is modelled (TLC's integers
\* are 32 bits wide): the range is [-2^(I64_BITS-1), 2^(I64_BITS-1) - 1].
I64_BITS == 8
\* Steps the engine word BURN costs: a stand-in for a loop, so that a step
\* budget of 100 lets one BURN finish and stops two in one execution.
BurnSteps == 60

I64_MAX == 2 ^ (I64_BITS - 1) - 1
I64_MIN == 0 - 2 ^ (I64_BITS - 1)

(***************************************************************************)
(* Text                                                                    *)
(***************************************************************************)
\* Variant: only the space separates tokens.
IsWhitespace_SpaceOnly(c) == c = " "

IsWhitespace(c) == c \in {" ", "\t", "\n"}

RECURSIVE Split(_, _, _)
Split(s, cur, acc) ==
    IF s = <<>>
    THEN IF cur = <<>> THEN acc ELSE Append(acc, cur)
    ELSE IF IsWhitespace(Head(s))
         THEN Split(Tail(s), <<>>, IF cur = <<>> THEN acc ELSE Append(acc, cur))
         ELSE Split(Tail(s), Append(cur, Head(s)), acc)

\* line.split_whitespace().collect(): the maximal runs of non-whitespace.
split_whitespace(line) == Split(line, <<>>, <<>>)

Digits == <<"0", "1", "2", "3", "4", "5", "6", "7", "8", "9">>
IsDigit(c) == \E i \in 1..10 : Digits[i] = c
DigitVal(c) == (CHOOSE i \in 1..10 : Digits[i] = c) - 1

(***************************************************************************)
(* Results and the unified error type                                      *)
(***************************************************************************)
NoError == [variant |-> "", inner |-> [kind |-> "", what |-> <<>>]]
Ok(v) == [ok |-> TRUE, v |-> v, err |-> NoError]
Err(e) == [ok |-> FALSE, v |-> "", err |-> e]

\* The failure value of a collaborator: its kind and what it was about.
Failure(kind, what) == [kind |-> kind, what |-> what]

\* impl From<std::num::ParseIntError> for ForthInteractiveError
FromParseIntError(err) == [variant |-> "ParseIntError", inner |-> err]
\* impl From<ForthError> for ForthInteractiveError
FromForthError(err) == [variant |-> "ForthError", inner |-> err]
\* Variant: the conversion of std::io::Error wraps it in the variant of the
\* conversion above it.
FromIOError_AsForthError(err) == [variant |-> "ForthError", inner |-> err]

\* impl From<std::io::Error> for ForthInteractiveError
FromIOError(err) == [variant |-> "IOError", inner |-> err]

(***************************************************************************)
(* n.parse::<i64>(): an optional sign, then one or more decimal digits,    *)
(* accumulated with checked multiplication and addition (subtraction for   *)
(* a negative number), at the width of the model's i64.                    *)
(***************************************************************************)
RECURSIVE ParseDigits(_, _, _, _)

\* Variant: the digits are accumulated with wrapping arithmetic, so a number
\* out of range is accepted as the value it wraps to.
ParseDigits_Wrapping(s, acc, positive, tok) ==
    IF s = <<>> THEN [ok |-> TRUE, v |-> acc, err |-> Failure("", <<>>)]
    ELSE IF ~IsDigit(Head(s))
    THEN [ok |-> FALSE, v |-> 0, err |-> Failure("InvalidDigit", tok)]
    ELSE LET d == DigitVal(Head(s))
             x == IF positive THEN acc * 10 + d ELSE acc * 10 - d
         IN ParseDigits(Tail(s), ((x - I64_MIN) % (2 * (I64_MAX + 1))) + I64_MIN,
                        positive, tok)

\* The digits behind the sign, from the most significant on.
ParseDigits(s, acc, positive, tok) ==
    IF s = <<>> THEN [ok |-> TRUE, v |-> acc, err |-> Failure("", <<>>)]
    ELSE IF ~IsDigit(Head(s))
    THEN [ok |-> FALSE, v |-> 0, err |-> Failure("InvalidDigit", tok)]
    ELSE LET d == DigitVal(Head(s)) IN
         IF positive
         THEN IF acc > (I64_MAX - d) \div 10
              THEN [ok |-> FALSE, v |-> 0, err |-> Failure("PosOverflow", tok)]
              ELSE ParseDigits(Tail(s), acc * 10 + d, positive, tok)
         ELSE IF acc * 10 - d < I64_MIN
              THEN [ok |-> FALSE, v |-> 0, err |-> Failure("NegOverflow", tok)]
              ELSE ParseDigits(Tail(s), acc * 10 - d, positive, tok)

ParseI64(tok) ==
    IF tok = <<>> THEN [ok |-> FALSE, v |-> 0, err |-> Failure("Empty", tok)]
    ELSE IF Head(tok) \in {"+", "-"} /\ Len(tok) = 1
    THEN [ok |-> FALSE, v |-> 0, err |-> Failure("InvalidDigit", tok)]
    ELSE IF Head(tok) = "+" THEN ParseDigits(Tail(tok), 0, TRUE, tok)
    ELSE IF Head(tok) = "-" THEN ParseDigits(Tail(tok), 0, FALSE, tok)
    ELSE ParseDigits(tok, 0, TRUE, tok)

(***************************************************************************)
(* The interpreter engine (crate rust_forth_compiler), by the interface    *)
(* the shell consumes: a fresh instance, execute_string(text, gas), the    *)
(* operand stack and the compiled opcodes.  The words it knows here are    *)
(* integer literals, ADD and BURN; every executed opcode costs steps of    *)
(* the budget.                                                             *)
(***************************************************************************)
W_ADD == <<"A", "D", "D">>
W_BURN == <<"B", "U", "R", "N">>

\* GasLimit::Limited(n)
Limited(n) == [limited |-> TRUE, n |-> n]

\* ForthCompiler::default()
ForthCompilerDefault == [number_stack |-> <<>>, opcodes |-> <<>>]

CompileToken(tok) ==
    IF tok = W_ADD THEN Ok([op |-> "ADD", n |-> 0])
    ELSE IF tok = W_BURN THEN Ok([op |-> "BURN", n |-> 0])
    ELSE IF ParseI64(tok).ok THEN Ok([op |-> "LDI", n |-> ParseI64(tok).v])
    ELSE Err(Failure("UnknownToken", tok))

RECURSIVE CompileTokens(_, _)
CompileTokens(toks, acc) ==
    IF toks = <<>> THEN Ok(acc)
    ELSE LET c == CompileToken(Head(toks)) IN
         IF c.ok THEN CompileTokens(Tail(toks), Append(acc, c.v)) ELSE c

StepCost(op) == IF op.op = "BURN" THEN BurnSteps ELSE 1

\* Two's complement wrap to the width of the model's i64.
WrapI64(x) == ((x - I64_MIN) % (2 ^ I64_BITS)) + I64_MIN

RECURSIVE RunOpcodes(_, _, _)
RunOpcodes(ops, st, gas) ==
    IF ops = <<>> THEN [stack |-> st, res |-> Ok("")]
    ELSE LET op == Head(ops)
             cost == StepCost(op)
         IN
         IF gas.limited /\ gas.n < cost
         THEN [stack |-> st, res |-> Err(Failure("RanOutOfGas", <<>>))]
         ELSE LET g == IF gas.limited THEN Limited(gas.n - cost) ELSE gas IN
              IF op.op = "LDI" THEN RunOpcodes(Tail(ops), Append(st, op.n), g)
              ELSE IF op.op = "BURN" THEN RunOpcodes(Tail(ops), st, g)
              ELSE IF Len(st) < 2
              THEN [stack |-> st, res |-> Err(Failure("NumberStackUnderflow", <<>>))]
              ELSE RunOpcodes(Tail(ops),
                              Append(SubSeq(st, 1, Len(st) - 2),
                                     WrapI64(st[Len(st) - 1] + st[Len(st)])),
                              g)

\* fc.execute_string(text, gas): the engine after the call, and its result.
execute_string(fc, text, gas) ==
    LET c == CompileTokens(split_whitespace(text), <<>>) IN
    IF ~c.ok THEN [fc |-> fc, res |-> c]
    ELSE LET r == RunOpcodes(c.v, fc.number_stack, gas) IN
         [fc |-> [number_stack |-> r.stack, opcodes |-> fc.opcodes \o c.v],
          res |-> r.res]

(***************************************************************************)
(* The file system read by command `l`.                                    *)
(***************************************************************************)
File_a == <<"a", ".", "f", "s">>
File_b == <<"b", ".", "f", "s">>
File_c == <<"c", ".", "f", "s">>
File_missing == <<"n", "o", "n", "e">>

Text_5_7_ADD == <<"5", " ", "7", " ">> \o W_ADD
Text_BURN == W_BURN \o <<"\n">>
Text_BURN_BURN == W_BURN \o <<" ">> \o W_BURN \o <<"\n">>

Files == (File_a :> Text_5_7_ADD) @@ (File_b :> Text_BURN_BURN) @@ (File_c :> Text_BURN)

\* fs::read_to_string(n)
read_to_string(n) ==
    IF n \in DOMAIN Files THEN Ok(Files[n]) ELSE Err(Failure("NotFound", n))

(***************************************************************************)
(* The command handlers registered by main, in registration order.         *)
(***************************************************************************)
Id_l == <<"l">>
Id_n == <<"n">>
Id_p == <<"p">>
Id_i == <<"i">>
Id_list_words == <<"l", "i", "s", "t", "_", "w", "o", "r", "d", "s">>
Id_list_compiled_opcodes ==
    <<"l", "i", "s", "t", "_", "c", "o", "m", "p", "i", "l", "e", "d", "_",
      "o", "p", "c", "o", "d", "e", "s">>
Id_clear_number_stack ==
    <<"c", "l", "e", "a", "r", "_", "n", "u", "m", "b", "e", "r", "_",
      "s", "t", "a", "c", "k">>

\* CommandHandler::new(command_id, usage_text, help_text, f); to_run names
\* the closure f.
CommandHandler(command_id, usage_text, help_text, f) ==
    [command_id |-> command_id, usage_text |-> usage_text,
     help_text |-> help_text, to_run |-> f]

\* Variant: the handler of list_compiled_opcodes is registered under the id
\* of the handler before it.
StartupRegistry_DuplicateId ==
    << CommandHandler(Id_l, "file1.fs [file2.fs]", "Load Forth file", "l"),
       CommandHandler(Id_n, "No Parameters", "Print number stack", "n"),
       CommandHandler(Id_p, "n1 [n2]", "Push numbers on stack", "p"),
       CommandHandler(Id_i, "Enter interactive Forth text",
                      "Enter interactive Forth text", "i"),
       CommandHandler(Id_list_words, "No parameters",
                      "List OpCodes that are compiled into memory", "list_words"),
       CommandHandler(Id_list_words, "No parameters",
                      "Show the opcodes that are compiled into memory",
                      "list_compiled_opcodes"),
       CommandHandler(Id_clear_number_stack, "No parameters",
                      "Remove all numbers from number stack",
                      "clear_number_stack") >>

StartupRegistry ==
    << CommandHandler(Id_l, "file1.fs [file2.fs]", "Load Forth file", "l"),
       CommandHandler(Id_n, "No Parameters", "Print number stack", "n"),
       CommandHandler(Id_p, "n1 [n2]", "Push numbers on stack", "p"),
       CommandHandler(Id_i, "Enter interactive Forth text",
                      "Enter interactive Forth text", "i"),
       CommandHandler(Id_list_words, "No parameters",
                      "List OpCodes that are compiled into memory", "list_words"),
       CommandHandler(Id_list_compiled_opcodes, "No parameters",
                      "Show the opcodes that are compiled into memory",
                      "list_compiled_opcodes"),
       CommandHandler(Id_clear_number_stack, "No parameters",
                      "Remove all numbers from number stack",
                      "clear_number_stack") >>

\* What one call of a closure leaves: the engine, the closure's result, what
\* it printed, and the execute_string calls it made (text and budget).
Outcome(fc, res, out, calls) == [fc |-> fc, res |-> res, out |-> out, calls |-> calls]

\* The step budgets the closures of `l` and `i` hand to the engine.
LoadGas == 100
InteractiveGas == 100

\* Variant: `l` runs each file under half the budget.
LoadBudget_Half == Limited(LoadGas \div 2)

LoadBudget == Limited(LoadGas)
InteractiveBudget == Limited(InteractiveGas)

RECURSIVE LoadEach(_, _, _)

\* Variant: a file that cannot be read or whose execution fails is passed
\* over and the files behind it are still loaded.
LoadEach_KeepGoing(params, fc, calls) ==
    IF params = <<>> THEN Outcome(fc, Ok("Handled"), <<>>, calls)
    ELSE LET startup == read_to_string(Head(params)) IN
         IF ~startup.ok
         THEN LET rest == LoadEach(Tail(params), fc, calls) IN
              Outcome(rest.fc, Err(FromIOError(startup.err)), <<>>, rest.calls)
         ELSE LET ex == execute_string(fc, startup.v, LoadBudget)
                  cs == Append(calls, [text |-> startup.v, gas |-> LoadBudget])
              IN
              IF ~ex.res.ok
              THEN LET rest == LoadEach(Tail(params), ex.fc, cs) IN
                   Outcome(rest.fc, Err(FromForthError(ex.res.err)), <<>>, rest.calls)
              ELSE LoadEach(Tail(params), ex.fc, cs)

\* `for n in params`: read the file, execute it, leave at the first error.
LoadEach(params, fc, calls) ==
    IF params = <<>> THEN Outcome(fc, Ok("Handled"), <<>>, calls)
    ELSE LET startup == read_to_string(Head(params)) IN
         IF ~startup.ok
         THEN Outcome(fc, Err(FromIOError(startup.err)), <<>>, calls)
         ELSE LET ex == execute_string(fc, startup.v, LoadBudget)
                  cs == Append(calls, [text |-> startup.v, gas |-> LoadBudget])
              IN
              IF ~ex.res.ok
              THEN Outcome(ex.fc, Err(FromForthError(ex.res.err)), <<>>, cs)
              ELSE LoadEach(Tail(params), ex.fc, cs)

\* Variant: `l` without a file name fails as if the file were missing.
to_run_l_RequiresFile(params, fc) ==
    IF params = <<>>
    THEN Outcome(fc, Err(FromIOError(Failure("NotFound", <<>>))), <<>>, <<>>)
    ELSE LoadEach(params, fc, <<>>)

\* The closure of `l`.
to_run_l(params, fc) == LoadEach(params, fc, <<>>)

\* Variant: `n` declines a line that gives it parameters.
to_run_n_RejectsParameters(params, fc) ==
    IF params # <<>> THEN Outcome(fc, Ok("NotHandled"), <<>>, <<>>)
    ELSE Outcome(fc, Ok("Handled"),
                 <<[kind |-> "NumberStack", what |-> fc.number_stack]>>, <<>>)

\* The closure of `n`.
to_run_n(params, fc) ==
    Outcome(fc, Ok("Handled"),
            <<[kind |-> "NumberStack", what |-> fc.number_stack]>>, <<>>)

RECURSIVE PushEach(_, _)

\* Variant: a token that does not parse is reported only after the tokens
\* behind it were pushed.
PushEach_SkipInvalid(params, fc) ==
    IF params = <<>> THEN Outcome(fc, Ok("Handled"), <<>>, <<>>)
    ELSE LET n == ParseI64(Head(params)) IN
         IF ~n.ok
         THEN Outcome(PushEach(Tail(params), fc).fc,
                      Err(FromParseIntError(n.err)), <<>>, <<>>)
         ELSE PushEach(Tail(params),
                       [fc EXCEPT !.number_stack = Append(@, n.v)])

PushEach(params, fc) ==
    IF params = <<>> THEN Outcome(fc, Ok("Handled"), <<>>, <<>>)
    ELSE LET n == ParseI64(Head(params)) IN
         IF ~n.ok THEN Outcome(fc, Err(FromParseIntError(n.err)), <<>>, <<>>)
         ELSE PushEach(Tail(params),
                       [fc EXCEPT !.number_stack = Append(@, n.v)])

\* Variant: the parameters are pushed last first.
to_run_p_Reversed(params, fc) ==
    PushEach([k \in 1..Len(params) |-> params[Len(params) + 1 - k]], fc)

\* The closure of `p`.
to_run_p(params, fc) == PushEach(params, fc)

\* The closure of `i`, once enter_interactive_text() has returned text.
to_run_i(text, fc) ==
    LET ex == execute_string(fc, text, InteractiveBudget)
        cs == <<[text |-> text, gas |-> InteractiveBudget]>>
    IN
    IF ~ex.res.ok THEN Outcome(ex.fc, Err(FromForthError(ex.res.err)), <<>>, cs)
    ELSE Outcome(ex.fc, Ok("Handled"), <<>>, cs)

\* The closure of `list_words`.
to_run_list_words(params, fc) == Outcome(fc, Ok("Handled"), <<>>, <<>>)

\* The closure of `list_compiled_opcodes`.
to_run_list_compiled_opcodes(params, fc) ==
    Outcome(fc, Ok("Handled"),
            <<[kind |-> "CompiledOpcodes", what |-> fc.opcodes]>>, <<>>)

\* Variant: truncate(1) in place of truncate(0).
to_run_clear_number_stack_KeepOne(params, fc) ==
    Outcome([fc EXCEPT !.number_stack = SubSeq(@, 1, IF Len(@) < 1 THEN Len(@) ELSE 1)],
            Ok("Handled"), <<>>, <<>>)

\* The closure of `clear_number_stack`.
to_run_clear_number_stack(params, fc) ==
    Outcome([fc EXCEPT !.number_stack = SubSeq(@, 1, 0)], Ok("Handled"), <<>>, <<>>)

\* A closure that declines: the type of to_run allows Ok(NotHandled), though
\* no closure main registers returns it.
to_run_decline(params, fc) == Outcome(fc, Ok("NotHandled"), <<>>, <<>>)

\* (self.to_run)(self.command_id, parameters, fc), for every closure but
\* that of `i`, which reads lines before it returns.
to_run(f, params, fc) ==
    CASE f = "l" -> to_run_l(params, fc)
      [] f = "n" -> to_run_n(params, fc)
      [] f = "p" -> to_run_p(params, fc)
      [] f = "list_words" -> to_run_list_words(params, fc)
      [] f = "list_compiled_opcodes" -> to_run_list_compiled_opcodes(params, fc)
      [] f = "clear_number_stack" -> to_run_clear_number_stack(params, fc)
      [] f = "decline" -> to_run_decline(params, fc)

\* Whether handle_command of descriptor d runs its closure.
Matches(d, command_id) == command_id = d.command_id

\* CommandHandler::handle_command
handle_command(d, command_id, parameters, fc) ==
    IF Matches(d, command_id) THEN to_run(d.to_run, parameters, fc)
    ELSE Outcome(fc, Ok("NotHandled"), <<>>, <<>>)

(***************************************************************************)
(* The lines a user may type.                                              *)
(***************************************************************************)
RECURSIVE IntToDec(_)
\* The decimal digits of a natural number.
IntToDec(n) == IF n < 10 THEN <<Digits[n + 1]>>
               ELSE Append(IntToDec(n \div 10), Digits[(n % 10) + 1])

SP == <<" ">>
T_abc == <<"a", "b", "c">>
T_zzz == <<"z", "z", "z">>
T_TooBig == IntToDec(I64_MAX + 1)
\* The least and the greatest i64, and the integer below the least.
T_Min == <<"-">> \o IntToDec(0 - I64_MIN)
T_Max == IntToDec(I64_MAX)
T_TooSmall == <<"-">> \o IntToDec(1 - I64_MIN)

L_empty == <<>>
L_blank == <<" ", "\t">>
L_p_5_7 == Id_p \o SP \o <<"5">> \o SP \o <<"7">>
L_p_5_abc_7 == Id_p \o SP \o <<"5">> \o SP \o T_abc \o SP \o <<"7">>
L_p_neg_TooBig ==
    <<" ">> \o Id_p \o <<" ", "\t">> \o <<"-", "3">> \o SP \o T_TooBig \o SP \o <<"7">> \o SP
L_p_Min_Max_TooSmall == Id_p \o SP \o T_Min \o SP \o T_Max \o SP \o T_TooSmall
L_p == Id_p
L_n == Id_n
L_zzz == T_zzz \o SP \o <<"5">>
L_clear == Id_clear_number_stack
L_l_a == Id_l \o SP \o File_a
L_l_missing_a == Id_l \o SP \o File_missing \o SP \o File_a
L_l_b_a == Id_l \o SP \o File_b \o SP \o File_a
L_l_c_c == Id_l \o SP \o File_c \o SP \o File_c
L_l_a_missing_c == Id_l \o SP \o File_a \o SP \o File_missing \o SP \o File_c
L_l_a_b_c == Id_l \o SP \o File_a \o SP \o File_b \o SP \o File_c
L_l == Id_l
L_i == Id_i
L_list_words == Id_list_words
L_list_compiled_opcodes == Id_list_compiled_opcodes
\* Lines that give parameters to commands that take none.
L_n_5_abc == Id_n \o SP \o <<"5">> \o SP \o T_abc
L_list_words_7 == Id_list_words \o SP \o <<"7">>
L_list_compiled_opcodes_a == Id_list_compiled_opcodes \o SP \o File_a

OuterLines ==
    { L_empty, L_blank, L_p_5_7, L_p_5_abc_7, L_p_neg_TooBig, L_p, L_n,
      L_zzz, L_clear, L_l_a, L_l_missing_a, L_l_b_a, L_l_c_c, L_l_a_missing_c,
      L_l_a_b_c, L_l, L_i, L_list_words, L_list_compiled_opcodes, L_n_5_abc,
      L_list_words_7, L_list_compiled_opcodes_a, L_p_Min_Max_TooSmall }

InnerLines == { <<"5">>, <<"7">>, W_BURN }

(***************************************************************************)
(* The line-reading collaborator's history: Editor::new() starts empty,    *)
(* load_history reads a store if there is one, add_history_entry appends,  *)
(* save_history writes the entries to the store.                           *)
(***************************************************************************)
NoStore == [exists |-> FALSE, lines |-> <<>>]
Store(lines) == [exists |-> TRUE, lines |-> lines]

\* rl.load_history(store).is_err()
load_history_is_err(store) == ~store.exists
\* The editor's entries after Editor::new() and load_history(store).
load_history(store) == IF store.exists THEN store.lines ELSE <<>>
\* rl.add_history_entry(line)
add_history_entry(history, line) == Append(history, line)
\* rl.save_history(store), which is taken to succeed: main and
\* enter_interactive_text unwrap its result.
save_history(history) == Store(history)

NoPreviousHistory(store) ==
    IF load_history_is_err(store) THEN <<[kind |-> "NoPreviousHistory", what |-> <<>>]>>
    ELSE <<>>

(***************************************************************************)
(* State                                                                   *)
(***************************************************************************)
VARIABLES
    pc,               \* the read main blocks in: "prompt", "capture"; or "done"
    fc,               \* the ForthCompiler: number_stack and opcodes
    command_handlers, \* the registry
    rl_history,       \* the entries of main's Editor
    history_txt,      \* the store history.txt
    rl_i_history,     \* the entries of enter_interactive_text's Editor
    history_forth_interactive_txt, \* the store history_forth_interactive.txt
    words,            \* the tokens of the line being dispatched
    handled,          \* main's local `handled`
    h,                \* position of the for loop over command_handlers
    return_value,     \* enter_interactive_text's accumulator
    printed,          \* what was printed since the last line was read
    fc0,              \* history: fc when the last line was read
    invoked,          \* history: the closures run for the last line
    results,          \* history: what each handle_command of the line returned
    calls,            \* history: the execute_string calls made for the line
    captured,         \* history: the lines read by the last capture
    inner_saves,      \* history: save_history calls on the inner store
    nread,            \* lines read at the outer prompt
    typed_inner,      \* history: every line read at the inner prompt
    exit_cause,       \* the readline error that ended the outer loop
    status            \* "running", or "success" once main returned Ok(())

vars == << pc, fc, command_handlers, rl_history, history_txt, rl_i_history,
           history_forth_interactive_txt, words, handled, h, return_value,
           printed, fc0, invoked, results, calls, captured, inner_saves,
           nread, typed_inner, exit_cause, status >>

\* The stores a session may find at startup: none, or both from an earlier
\* session.
InitialStores == { NoStore, Store(<<L_n>>) }

\* main up to its loop: the engine is fresh, the registry is `registry`,
\* the outer Editor has loaded history.txt.
InitWith(registry) ==
    /\ pc = "prompt"
    /\ fc = ForthCompilerDefault
    /\ command_handlers = registry
    /\ history_txt \in InitialStores
    /\ history_forth_interactive_txt = history_txt
    /\ rl_history = load_history(history_txt)
    /\ rl_i_history = <<>>
    /\ words = <<>>
    /\ handled = FALSE
    /\ h = 0
    /\ return_value = <<>>
    /\ printed = <<[kind |-> "Banner", what |-> <<>>]>> \o NoPreviousHistory(history_txt)
    /\ fc0 = fc
    /\ invoked = <<>>
    /\ results = <<>>
    /\ calls = <<>>
    /\ captured = <<>>
    /\ inner_saves = 0
    /\ nread = 0
    /\ typed_inner = <<>>
    /\ exit_cause = ""
    /\ status = "running"

Init == InitWith(StartupRegistry)

\* Variant: a handler that returned an error counts as having handled the
\* line.
HandledAfter_ErrorCounts(was, res) == was \/ ~res.ok \/ (res.ok /\ res.v = "Handled")

\* The match of main on what handle_command returned.
HandledAfter(was, res) == was \/ (res.ok /\ res.v = "Handled")
ErrorReport(res) == IF res.ok THEN <<>> ELSE <<[kind |-> "Error", what |-> res.err]>>

\* Variant: the table is listed last registered first.
HelpRows_Reversed(handlers) ==
    [k \in 1..Len(handlers) |->
        [help |-> handlers[Len(handlers) + 1 - k].help_text,
         command |-> handlers[Len(handlers) + 1 - k].command_id,
         usage |-> handlers[Len(handlers) + 1 - k].usage_text]]

\* The rows of the help table.
HelpRows(handlers) ==
    [k \in 1..Len(handlers) |->
        [help |-> handlers[k].help_text, command |-> handlers[k].command_id,
         usage |-> handlers[k].usage_text]]
HelpTable(isHandled, handlers) ==
    IF isHandled THEN <<>> ELSE <<[kind |-> "Help", what |-> HelpRows(handlers)]>>

(***************************************************************************)
(* The dispatch of one line.  main runs from one blocking read to the      *)
(* next, so the for loop over command_handlers is run as far as it goes    *)
(* without reading: to its end, or to a handler whose closure is that of   *)
(* `i`.  A loop state holds main's locals and the histories of the line.   *)
(***************************************************************************)
LoopState(f, isHandled, out, inv, res, cs, k) ==
    [fc |-> f, handled |-> isHandled, printed |-> out, invoked |-> inv,
     results |-> res, calls |-> cs, h |-> k]

Invocation(k, params, f) == [h |-> k, parameters |-> params, fc |-> f]

\* Whether handle_command of d would read lines: its closure is that of `i`.
Blocks(d, command_id) == Matches(d, command_id) /\ d.to_run = "i"

\* One iteration of `for h in command_handlers.iter_mut()`.
DispatchStep(ls, d, ws) ==
    LET r == handle_command(d, Head(ws), Tail(ws), ls.fc) IN
    LoopState(r.fc,
              HandledAfter(ls.handled, r.res),
              (ls.printed \o r.out) \o ErrorReport(r.res),
              IF Matches(d, Head(ws))
              THEN Append(ls.invoked, Invocation(ls.h, Tail(ws), ls.fc))
              ELSE ls.invoked,
              Append(ls.results, r.res),
              ls.calls \o r.calls,
              ls.h + 1)

RECURSIVE DispatchLoop(_, _, _)

\* Variant: the loop is left after the first handler whose id matched.
DispatchLoop_FirstMatchOnly(ls, handlers, ws) ==
    IF ls.h > Len(handlers) THEN ls
    ELSE IF Blocks(handlers[ls.h], Head(ws)) THEN ls
    ELSE IF Matches(handlers[ls.h], Head(ws))
    THEN [DispatchStep(ls, handlers[ls.h], ws) EXCEPT !.h = Len(handlers) + 1]
    ELSE DispatchLoop(DispatchStep(ls, handlers[ls.h], ws), handlers, ws)

\* Variant: the loop is left at the first handler that returned an error.
DispatchLoop_BreakOnError(ls, handlers, ws) ==
    IF ls.h > Len(handlers) THEN ls
    ELSE IF Blocks(handlers[ls.h], Head(ws)) THEN ls
    ELSE LET nx == DispatchStep(ls, handlers[ls.h], ws) IN
         IF ~nx.results[Len(nx.results)].ok THEN nx
         ELSE DispatchLoop(nx, handlers, ws)

DispatchLoop(ls, handlers, ws) ==
    IF ls.h > Len(handlers) THEN ls
    ELSE IF Blocks(handlers[ls.h], Head(ws)) THEN ls
    ELSE DispatchLoop(DispatchStep(ls, handlers[ls.h], ws), handlers, ws)

\* Variant: a line one of whose handlers returned an error ends the session.
Settle_ExitOnError(ls, inner_store) ==
    /\ fc' = ls.fc
    /\ handled' = ls.handled
    /\ results' = ls.results
    /\ calls' = ls.calls
    /\ h' = ls.h
    /\ IF ls.h <= Len(command_handlers)
       THEN /\ pc' = "capture"
            /\ return_value' = <<>>
            /\ captured' = <<>>
            /\ rl_i_history' = load_history(inner_store)
            /\ printed' = ls.printed \o NoPreviousHistory(inner_store)
            /\ invoked' = Append(ls.invoked, Invocation(ls.h, Tail(words'), ls.fc))
       ELSE /\ pc' = IF \E k \in 1..Len(ls.results) : ~ls.results[k].ok
                     THEN "done" ELSE "prompt"
            /\ printed' = ls.printed \o HelpTable(ls.handled, command_handlers)
            /\ invoked' = ls.invoked
            /\ UNCHANGED << return_value, captured, rl_i_history >>

\* main after the loop ran as far as ls: either the closure of `i` starts
\* (enter_interactive_text up to its first read, with the inner store as
\* it is then), or the loop is over and the help table is printed unless
\* the line was handled.
Settle(ls, inner_store) ==
    /\ fc' = ls.fc
    /\ handled' = ls.handled
    /\ results' = ls.results
    /\ calls' = ls.calls
    /\ h' = ls.h
    /\ IF ls.h <= Len(command_handlers)
       THEN /\ pc' = "capture"
            /\ return_value' = <<>>
            /\ captured' = <<>>
            /\ rl_i_history' = load_history(inner_store)
            /\ printed' = ls.printed \o NoPreviousHistory(inner_store)
            /\ invoked' = Append(ls.invoked, Invocation(ls.h, Tail(words'), ls.fc))
       ELSE /\ pc' = "prompt"
            /\ printed' = ls.printed \o HelpTable(ls.handled, command_handlers)
            /\ invoked' = ls.invoked
            /\ UNCHANGED << return_value, captured, rl_i_history >>

\* Ok(line) at the outer prompt: record, tokenise and, unless there is no
\* token, dispatch.
ReadLine(line) ==
    /\ pc = "prompt"
    /\ nread < MaxLines
    /\ nread' = nread + 1
    /\ rl_history' = add_history_entry(rl_history, line)
    /\ words' = split_whitespace(line)
    /\ fc0' = fc
    /\ LET out == <<[kind |-> "Line", what |-> line]>> IN
       IF words' = <<>>
       THEN /\ pc' = "prompt"
            /\ printed' = out
            /\ handled' = FALSE
            /\ h' = 0
            /\ invoked' = <<>>
            /\ results' = <<>>
            /\ calls' = <<>>
            /\ UNCHANGED << fc, return_value, captured, rl_i_history >>
       ELSE Settle(DispatchLoop(LoopState(fc, FALSE, out, <<>>, <<>>, <<>>, 1),
                                command_handlers, words'),
                   history_forth_interactive_txt)
    /\ UNCHANGED << command_handlers, history_txt, history_forth_interactive_txt,
                    inner_saves, typed_inner, exit_cause, status >>

\* Variant: the line is appended without its newline.
PushLine_NoNewline(text, line) == text \o line

\* return_value.push_str(line); return_value.push('\n')
PushLine(text, line) == (text \o line) \o <<"\n">>

\* Variant: the capture reads through main's Editor, so its lines enter the
\* outer history.
CaptureLine_OuterEditor(line) ==
    /\ pc = "capture"
    /\ Len(typed_inner) < MaxCaptured
    /\ typed_inner' = Append(typed_inner, line)
    /\ rl_history' = add_history_entry(rl_history, line)
    /\ return_value' = PushLine(return_value, line)
    /\ captured' = Append(captured, line)
    /\ UNCHANGED << pc, fc, command_handlers, rl_i_history, history_txt,
                    history_forth_interactive_txt, words, handled, h, printed,
                    fc0, invoked, results, calls, inner_saves, nread,
                    exit_cause, status >>

\* Ok(line) at the inner prompt.
CaptureLine(line) ==
    /\ pc = "capture"
    /\ Len(typed_inner) < MaxCaptured
    /\ typed_inner' = Append(typed_inner, line)
    /\ rl_i_history' = add_history_entry(rl_i_history, line)
    /\ return_value' = PushLine(return_value, line)
    /\ captured' = Append(captured, line)
    /\ UNCHANGED << pc, fc, command_handlers, rl_history, history_txt,
                    history_forth_interactive_txt, words, handled, h, printed,
                    fc0, invoked, results, calls, inner_saves, nread,
                    exit_cause, status >>

\* Variant: the inner history is not saved.
InnerStoreAfter_NotSaved(history, store) == store

\* The inner store after enter_interactive_text's loop broke.
InnerStoreAfter(history, store) == save_history(history)

\* Variant: a readline error other than an interrupt or an end of input is
\* escalated: the captured text is dropped and the session ends.
CaptureEnd_ErrorEscalates(cause) ==
    /\ pc = "capture"
    /\ history_forth_interactive_txt' =
           InnerStoreAfter(rl_i_history, history_forth_interactive_txt)
    /\ inner_saves' = inner_saves + 1
    /\ words' = words
    /\ IF cause = "ReadlineError"
       THEN /\ pc' = "done"
            /\ printed' = printed \o <<[kind |-> cause, what |-> <<>>]>>
            /\ UNCHANGED << fc, handled, results, calls, h, invoked,
                            return_value, captured, rl_i_history >>
       ELSE LET r == to_run_i(return_value, fc)
                ls == LoopState(r.fc,
                                HandledAfter(handled, r.res),
                                (printed \o <<[kind |-> cause, what |-> <<>>]>>)
                                    \o ErrorReport(r.res),
                                invoked,
                                Append(results, r.res),
                                calls \o r.calls,
                                h + 1)
            IN Settle(DispatchLoop(ls, command_handlers, words),
                      history_forth_interactive_txt')
    /\ UNCHANGED << command_handlers, rl_history, history_txt, fc0, nread,
                    typed_inner, exit_cause, status >>

\* Err(_) at the inner prompt: the loop breaks, the inner history is saved,
\* the text is returned to the closure of `i`, which executes it; main
\* matches on the closure's result and goes on with the for loop.
CaptureEnd(cause) ==
    /\ pc = "capture"
    /\ history_forth_interactive_txt' =
           InnerStoreAfter(rl_i_history, history_forth_interactive_txt)
    /\ inner_saves' = inner_saves + 1
    /\ words' = words
    /\ LET r == to_run_i(return_value, fc)
           ls == LoopState(r.fc,
                           HandledAfter(handled, r.res),
                           (printed \o <<[kind |-> cause, what |-> <<>>]>>)
                               \o ErrorReport(r.res),
                           invoked,
                           Append(results, r.res),
                           calls \o r.calls,
                           h + 1)
       IN Settle(DispatchLoop(ls, command_handlers, words),
                 history_forth_interactive_txt')
    /\ UNCHANGED << command_handlers, rl_history, history_txt, fc0, nread,
                    typed_inner, exit_cause, status >>

CaptureInterrupted == CaptureEnd("CTRL-C")
CaptureEof == CaptureEnd("CTRL-D")
CaptureError == CaptureEnd("ReadlineError")

\* The outer store after main's loop broke.
OuterStoreAfter(history, store) == save_history(history)

\* Err(_) at the outer prompt: the loop breaks, the history is saved and
\* main returns Ok(()).
ReadEnd(cause) ==
    /\ pc = "prompt"
    /\ printed' = <<[kind |-> cause, what |-> <<>>]>>
    /\ history_txt' = OuterStoreAfter(rl_history, history_txt)
    /\ exit_cause' = cause
    /\ status' = "success"
    /\ pc' = "done"
    /\ UNCHANGED << fc, command_handlers, rl_history, rl_i_history,
                    history_forth_interactive_txt, words, handled, h,
                    return_value, fc0, invoked, results, calls, captured,
                    inner_saves, nread, typed_inner >>

ReadInterrupted == ReadEnd("CTRL-C")
ReadEof == ReadEnd("CTRL-D")
ReadError == ReadEnd("ReadlineError")

Next ==
    \/ \E line \in OuterLines : ReadLine(line)
    \/ \E line \in InnerLines : CaptureLine(line)
    \/ CaptureInterrupted
    \/ CaptureEof
    \/ CaptureError
    \/ ReadInterrupted
    \/ ReadEof
    \/ ReadError

Spec == Init /\ [][Next]_vars

(***************************************************************************)
(* The dispatch over registries other than main's: handle_command and the  *)
(* for loop take any Vec of handlers, and CommandHandler::new checks no    *)
(* id, so a registry may hold one id more than once.                       *)
(***************************************************************************)
P_push == CommandHandler(Id_p, "n1 [n2]", "Push numbers on stack", "p")
P_clear == CommandHandler(Id_p, "No parameters", "Remove all numbers from number stack",
                          "clear_number_stack")
P_decline == CommandHandler(Id_p, "No parameters", "Declines", "decline")
N_print == CommandHandler(Id_n, "No Parameters", "Print number stack", "n")
I_enter == CommandHandler(Id_i, "Enter interactive Forth text",
                          "Enter interactive Forth text", "i")

DupRegistries ==
    { << P_push, P_push >>,
      << P_decline, N_print, P_push >>,
      << P_push, P_decline >>,
      << P_push, I_enter, P_clear >>,
      << I_enter, N_print, I_enter >> }

RegLines == { L_p_5_7, L_p_5_abc_7, L_n, L_i, L_zzz }

InitReg == \E registry \in DupRegistries : InitWith(registry)

NextReg ==
    \/ \E line \in RegLines : ReadLine(line)
    \/ \E line \in InnerLines : CaptureLine(line)
    \/ CaptureInterrupted
    \/ CaptureEof
    \/ CaptureError
    \/ ReadInterrupted
    \/ ReadEof
    \/ ReadError

SpecReg == InitReg /\ [][NextReg]_vars

(***************************************************************************)
(* Properties                                                              *)
(***************************************************************************)
\* The dispatch of a line with tokens is over and main is back at its prompt.
Dispatched == pc = "prompt" /\ words # <<>>

ErrorReturned == \E k \in 1..Len(results) : ~results[k].ok
Reported(e) == \E j \in 1..Len(printed) : printed[j] = [kind |-> "Error", what |-> e]
HelpPrinted == \E j \in 1..Len(printed) : printed[j].kind = "Help"

\* The last line read at the outer prompt.
LastLine == rl_history[Len(rl_history)]
\* The last two lines read at the outer prompt.
LastTwoLines ==
    IF Len(rl_history) < 2 THEN <<>>
    ELSE SubSeq(rl_history, Len(rl_history) - 1, Len(rl_history))

\* C1: a handler that returns an error stops neither the loop over the
\* remaining handlers of the line nor the session: every handler of the
\* registry has been tried when main is back at its prompt, the loop is
\* suspended only in a handler that reads lines, each error is reported, the
\* session is still running (main blocks in its next read), and it ends
\* only by a readline error at the prompt.
C1_FailureNeverAborts ==
    ErrorReturned =>
        /\ pc # "capture" => Len(results) = Len(command_handlers)
        /\ pc = "capture" => /\ h <= Len(command_handlers)
                             /\ Blocks(command_handlers[h], Head(words))
        /\ pc = "done" => exit_cause # ""
        /\ pc # "done" => /\ status = "running"
                          /\ \A k \in 1..Len(results) :
                                 ~results[k].ok => Reported(results[k].err)

\* The first handler (`l`) failed, the six after it were tried, and the line
\* was read after a line whose `p` had failed.
C1_Witness ==
    /\ pc = "prompt"
    /\ nread = 2
    /\ LastTwoLines = <<L_p_5_abc_7, L_l_missing_a>>
    /\ Len(results) = 7
    /\ ~results[1].ok
    /\ fc.number_stack = <<5>>

AllValid(params) == \A k \in 1..Len(params) : ParseI64(params[k]).ok
Values(params) == [k \in 1..Len(params) |-> ParseI64(params[k]).v]

\* C2: `p v1 ... vk` with every parameter a valid integer leaves the stack
\* as it was followed by v1 ... vk in that order, reports Handled and
\* prints no help table; `n` displays the stack as it is.
C2_PushAppendsInOrder ==
    /\ (Dispatched /\ Head(words) = Id_p /\ AllValid(Tail(words))) =>
           /\ fc.number_stack = fc0.number_stack \o Values(Tail(words))
           /\ fc.opcodes = fc0.opcodes
           /\ results[3] = Ok("Handled")
           /\ handled
           /\ ~HelpPrinted
    /\ (Dispatched /\ Head(words) = Id_n) =>
           /\ \E j \in 1..Len(printed) :
                  printed[j] = [kind |-> "NumberStack", what |-> fc0.number_stack]
           /\ fc = fc0

\* `p 5 7` then `n`, from an empty stack: the display is [5, 7].
C2_Witness ==
    /\ Dispatched
    /\ LastTwoLines = <<L_p_5_7, L_n>>
    /\ printed[Len(printed)] = [kind |-> "NumberStack", what |-> <<5, 7>>]

\* The position of the first parameter that is no valid integer.
FirstInvalid(params) ==
    CHOOSE j \in 1..Len(params) :
        /\ ~ParseI64(params[j]).ok
        /\ \A k \in 1..(j - 1) : ParseI64(params[k]).ok

\* C3: `p t1 ... tk` whose first invalid token is tj reports a ParseIntError
\* about tj and leaves the stack as it was followed by the values of
\* t1 ... t(j-1); tj and the tokens after it are not pushed.
C3_PushStopsAtFirstInvalid ==
    (Dispatched /\ Head(words) = Id_p /\ ~AllValid(Tail(words))) =>
        LET params == Tail(words)
            j == FirstInvalid(params)
        IN
        /\ fc.number_stack = fc0.number_stack \o Values(SubSeq(params, 1, j - 1))
        /\ ~results[3].ok
        /\ results[3].err.variant = "ParseIntError"
        /\ results[3].err.inner.what = params[j]
        /\ Reported(results[3].err)

\* `p 5 abc 7`: 5 is pushed, abc is reported, 7 is not pushed.
C3_Witness ==
    /\ Dispatched
    /\ words = <<Id_p, <<"5">>, T_abc, <<"7">> >>
    /\ fc.number_stack = fc0.number_stack \o <<5>>
    /\ results[3].err.inner.what = T_abc

\* C4: `clear_number_stack` leaves the operand stack empty, reports Handled
\* and leaves the compiled opcodes as they were.
C4_ClearEmptiesStack ==
    (Dispatched /\ Head(words) = Id_clear_number_stack) =>
        /\ fc.number_stack = <<>>
        /\ fc.opcodes = fc0.opcodes
        /\ results[7] = Ok("Handled")
        /\ handled

\* `clear_number_stack` after `p 5 abc 7` had pushed 5.
C4_Witness ==
    /\ Dispatched
    /\ LastTwoLines = <<L_p_5_abc_7, L_clear>>
    /\ fc0.number_stack = <<5>>
    /\ fc.number_stack = <<>>

RegisteredIds ==
    << Id_l, Id_n, Id_p, Id_i, Id_list_words, Id_list_compiled_opcodes,
       Id_clear_number_stack >>

\* C5: a line whose first token is no registered id runs no closure, leaves
\* the engine as it was and prints the help table once, with one row per
\* handler in registration order.
C5_UnknownIdPrintsHelp ==
    (Dispatched /\ \A k \in 1..Len(RegisteredIds) : Head(words) # RegisteredIds[k]) =>
        /\ invoked = <<>>
        /\ fc = fc0
        /\ Len(printed) = 2
        /\ printed[2].kind = "Help"
        /\ [k \in 1..Len(printed[2].what) |-> printed[2].what[k].command] = RegisteredIds
        /\ \A k \in 1..Len(printed[2].what) :
               /\ printed[2].what[k].help = StartupRegistry[k].help_text
               /\ printed[2].what[k].usage = StartupRegistry[k].usage_text

\* `zzz 5` after `p 5 7`: the stack is kept and the table is printed.
C5_Witness ==
    /\ Dispatched
    /\ LastTwoLines = <<L_p_5_7, L_zzz>>
    /\ fc.number_stack = <<5, 7>>
    /\ HelpPrinted

\* A line of no token: empty, or of spaces, tabs and newlines only.
IsBlank(line) == \A k \in 1..Len(line) : line[k] \in {" ", "\t", "\n"}

\* C6: a line with no token is not dispatched: no handler is tried, the
\* engine is as it was, nothing but the line is printed, and main is back
\* at its prompt.
C6_BlankLineIsNoOp ==
    (nread > 0 /\ IsBlank(LastLine)) =>
        /\ pc \in {"prompt", "done"}
        /\ words = <<>>
        /\ h = 0
        /\ invoked = <<>>
        /\ results = <<>>
        /\ calls = <<>>
        /\ fc = fc0
        /\ pc = "prompt" => printed = <<[kind |-> "Line", what |-> LastLine]>>

\* A line of a space and a tab after `p 5 7`.
C6_Witness ==
    /\ pc = "prompt"
    /\ LastTwoLines = <<L_p_5_7, L_blank>>
    /\ fc.number_stack = <<5, 7>>
    /\ printed = <<[kind |-> "Line", what |-> L_blank]>>

RECURSIVE JoinLines(_)
\* x1 + "\n" + ... + xk + "\n"
JoinLines(lines) ==
    IF lines = <<>> THEN <<>>
    ELSE (Head(lines) \o <<"\n">>) \o JoinLines(Tail(lines))

\* C7: the text the closure of `i` hands to the engine is the lines read by
\* the capture, in order, each followed by one newline; it is handed over
\* in one execute_string call, also when no line was read.
C7_CaptureForwardsJoinedLines ==
    /\ pc = "capture" => return_value = JoinLines(captured)
    /\ (Dispatched /\ Head(words) = Id_i) =>
           calls = <<[text |-> JoinLines(captured), gas |-> Limited(100)]>>

\* Lines 5 and 7, then the capture ends: "5\n7\n" is executed.
C7_Witness ==
    /\ Dispatched
    /\ Head(words) = Id_i
    /\ captured = << <<"5">>, <<"7">> >>
    /\ calls[1].text = <<"5", "\n", "7", "\n">>
    /\ fc.number_stack = fc0.number_stack \o <<5, 7>>

RECURSIVE DirectExecution(_, _)
\* The texts executed one after the other on engine f, each under a budget
\* of 100 steps, up to the first that fails.
DirectExecution(f, texts) ==
    IF texts = <<>> THEN [fc |-> f, res |-> Ok("")]
    ELSE LET ex == execute_string(f, Head(texts), Limited(100)) IN
         IF ~ex.res.ok THEN ex ELSE DirectExecution(ex.fc, Tail(texts))

SameOutcome(r, e) ==
    IF e.ok THEN r = Ok("Handled")
    ELSE r = Err([variant |-> "ForthError", inner |-> e.err])

\* C8: `l` on files that exist leaves the engine, and succeeds or fails, as
\* the direct execution of their contents under a budget of 100 steps does;
\* so does `i` for the text it captured.
C8_LoadEqualsDirectExecution ==
    /\ (Dispatched /\ Head(words) = Id_l /\ Len(words) >= 2
          /\ \A k \in 2..Len(words) : words[k] \in DOMAIN Files) =>
           LET d == DirectExecution(fc0, [k \in 1..(Len(words) - 1) |-> Files[words[k + 1]]])
           IN fc = d.fc /\ SameOutcome(results[1], d.res)
    /\ (Dispatched /\ Head(words) = Id_i) =>
           LET d == DirectExecution(fc0, <<JoinLines(captured)>>)
           IN fc = d.fc /\ SameOutcome(results[4], d.res)

\* `l a.fs`, the file holding "5 7 ADD": 12 is pushed, three opcodes are
\* compiled.
C8_Witness ==
    /\ Dispatched
    /\ words = <<Id_l, File_a>>
    /\ fc.number_stack = fc0.number_stack \o <<12>>
    /\ Len(fc.opcodes) = Len(fc0.opcodes) + 3
    /\ results[1] = Ok("Handled")

\* The positions of the handlers whose id is the line's first token.
MatchingPositions ==
    SelectSeq([k \in 1..Len(command_handlers) |-> k],
              LAMBDA k : command_handlers[k].command_id = Head(words))

\* C9: every handler whose id is the line's first token is run, in
\* registration order, with the line's parameters and on the engine as the
\* handler before it left it, whatever that handler returned.
C9_EveryMatchRuns ==
    (words # <<>> /\ pc # "done") =>
        /\ [j \in 1..Len(invoked) |-> invoked[j].h] =
               SelectSeq(MatchingPositions, LAMBDA k : k <= h)
        /\ pc = "prompt" => Len(invoked) = Len(MatchingPositions)
        /\ \A j \in 1..Len(invoked) :
               /\ invoked[j].parameters = Tail(words)
               /\ j = 1 => invoked[j].fc = fc0
               /\ LET d == command_handlers[invoked[j].h] IN
                  d.to_run # "i" =>
                      LET r == to_run(d.to_run, Tail(words), invoked[j].fc) IN
                      /\ results[invoked[j].h] = r.res
                      /\ IF j < Len(invoked) THEN invoked[j + 1].fc = r.fc
                         ELSE fc = r.fc

\* Two handlers of id p: `p 5 abc 7` runs both, the second after the first
\* returned an error, and 5 is pushed twice.
C9_Witness ==
    /\ Dispatched
    /\ command_handlers = << P_push, P_push >>
    /\ words = <<Id_p, <<"5">>, T_abc, <<"7">> >>
    /\ Len(invoked) = 2
    /\ ~results[1].ok
    /\ ~results[2].ok
    /\ fc.number_stack = fc0.number_stack \o <<5, 5>>

\* Whether sequence t ends with sequence s.
EndsWith(t, s) ==
    /\ Len(s) <= Len(t)
    /\ SubSeq(t, Len(t) - Len(s) + 1, Len(t)) = s

ReadlineErrors == {"CTRL-C", "CTRL-D", "ReadlineError"}

AnyHandled == \E k \in 1..Len(results) : results[k].ok /\ results[k].v = "Handled"
\* The positions of the help table in what the line printed.
HelpPositions == { j \in 1..Len(printed) : printed[j].kind = "Help" }
ErrorPositions == { j \in 1..Len(printed) : printed[j].kind = "Error" }

\* C12: after the dispatch of a line with at least one token, the help
\* table has been printed exactly when no handle_command of the line
\* returned Handled; it is then the last thing printed, once, with a row for
\* every handler in registration order, after the report of every error the
\* line's handlers returned (so a matching id whose closure failed prints its
\* error and then the table).
C12_HelpIffNothingHandled ==
    Dispatched =>
        /\ (HelpPositions # {}) <=> ~AnyHandled
        /\ HelpPositions \subseteq {Len(printed)}
        /\ \A j \in HelpPositions : printed[j].what = HelpRows(command_handlers)
        /\ Cardinality(ErrorPositions) =
               Cardinality({ k \in 1..Len(results) : ~results[k].ok })
        /\ \A j \in ErrorPositions : \A k \in HelpPositions : j < k

\* `l none a.fs`: the id matched, reading the file failed, the error was
\* reported and the table followed it.
C12_Witness ==
    /\ Dispatched
    /\ LastLine = L_l_missing_a
    /\ Len(invoked) = 1
    /\ ~AnyHandled
    /\ printed[Len(printed) - 1] =
           [kind |-> "Error", what |-> FromIOError(Failure("NotFound", File_missing))]
    /\ printed[Len(printed)] = [kind |-> "Help", what |-> HelpRows(StartupRegistry)]

RunFiles(f, params, j) == DirectExecution(f, [k \in 1..j |-> Files[params[k]]])

\* C14: after `l f1 ... fk`, the execute_string calls made are those of a
\* prefix f1..fn of the files, in the order given, each with the file's
\* whole text and a budget of 100 steps of its own; every executed file but
\* the last succeeded and the engine is the one these executions leave.
\* `l` returned Handled iff all k files ran and succeeded; otherwise it
\* returned the first failure: IOError when file n+1 could not be read, or
\* ForthError when the execution of file n failed, and no file behind it
\* was read or executed.
C14_LoadStopsAtFirstFailure ==
    (Dispatched /\ Head(words) = Id_l) =>
        LET params == Tail(words)
            n == Len(calls)
        IN
        /\ n <= Len(params)
        /\ \A k \in 1..n :
               /\ params[k] \in DOMAIN Files
               /\ calls[k] = [text |-> Files[params[k]], gas |-> Limited(LoadGas)]
        /\ \A j \in 0..(n - 1) : RunFiles(fc0, params, j).res.ok
        /\ fc = RunFiles(fc0, params, n).fc
        /\ IF results[1].ok
           THEN /\ results[1].v = "Handled"
                /\ n = Len(params)
                /\ RunFiles(fc0, params, n).res.ok
           ELSE IF results[1].err.variant = "IOError"
           THEN /\ n < Len(params)
                /\ params[n + 1] \notin DOMAIN Files
                /\ RunFiles(fc0, params, n).res.ok
                /\ results[1].err = FromIOError(Failure("NotFound", params[n + 1]))
           ELSE /\ results[1].err.variant = "ForthError"
                /\ n >= 1
                /\ ~RunFiles(fc0, params, n).res.ok
                /\ results[1].err = FromForthError(RunFiles(fc0, params, n).res.err)

\* `l a.fs b.fs c.fs`: a.fs pushed 12, b.fs ran out of gas in its second
\* BURN, c.fs was not executed; the 12 and the opcodes of a.fs and b.fs are
\* kept.
C14_Witness ==
    /\ Dispatched
    /\ words = <<Id_l, File_a, File_b, File_c>>
    /\ Len(calls) = 2
    /\ ~results[1].ok
    /\ results[1].err.variant = "ForthError"
    /\ results[1].err.inner.kind = "RanOutOfGas"
    /\ fc.number_stack = fc0.number_stack \o <<12>>
    /\ Len(fc.opcodes) = Len(fc0.opcodes) + 5

\* C15: the two prompts keep apart what they record.  A step that reads a
\* line while the capture goes on appends it to the inner Editor's history
\* and to the text, and leaves the outer history and its store, the
\* registry, the engine and main's locals as they are; the engine is still
\* the one the closure of `i` was called with.  The outer history grows only
\* by a line read at the outer prompt, and that step appends nothing to the
\* inner history (it at most loads it from its store).  history.txt is
\* written only from the outer history, history_forth_interactive.txt only
\* from the inner one, and the step that ends a capture hands over nothing
\* of the outer history, its store or the registry.
C15_CaptureSharesNothingButText ==
    /\ [](pc = "capture" => fc = invoked[Len(invoked)].fc)
    /\ [][(pc = "capture" /\ pc' = "capture") =>
              /\ \E line \in InnerLines :
                     /\ rl_i_history' = Append(rl_i_history, line)
                     /\ return_value' = (return_value \o line) \o <<"\n">>
              /\ UNCHANGED << rl_history, history_txt, command_handlers, fc,
                              words, handled, h, results, calls, nread,
                              history_forth_interactive_txt, status >>]_vars
    /\ [][rl_history' # rl_history =>
              /\ pc = "prompt"
              /\ \E line \in OuterLines : rl_history' = Append(rl_history, line)
              /\ \/ rl_i_history' = rl_i_history
                 \/ rl_i_history' = load_history(history_forth_interactive_txt)
              /\ UNCHANGED << history_txt, history_forth_interactive_txt >>]_vars
    /\ [][history_txt' # history_txt =>
              /\ pc = "prompt" /\ pc' = "done"
              /\ history_txt' = Store(rl_history)]_vars
    /\ [][history_forth_interactive_txt' # history_forth_interactive_txt =>
              /\ pc = "capture"
              /\ history_forth_interactive_txt' = Store(rl_i_history)
              /\ UNCHANGED << rl_history, history_txt >>]_vars
    /\ [][command_handlers' = command_handlers]_vars

\* In the capture started by the line `i`, 7 and 5 have been read: they are
\* in the inner history only, and history.txt still holds what the earlier
\* session left.
C15_Witness ==
    /\ pc = "capture"
    /\ rl_history = <<L_n, L_p_5_7, L_i>>
    /\ rl_i_history = <<L_n, <<"7">>, <<"5">> >>
    /\ return_value = <<"7", "\n", "5", "\n">>
    /\ history_txt = Store(<<L_n>>)
    /\ history_forth_interactive_txt = Store(<<L_n>>)
    /\ fc.number_stack = <<5, 7>>

\* The positions of `n`, `list_words` and `list_compiled_opcodes` in main's
\* registry.
DisplayPositions == { k \in 1..Len(StartupRegistry) :
                        StartupRegistry[k].command_id \in
                            {Id_n, Id_list_words, Id_list_compiled_opcodes} }

\* C16: after a line whose first token is n, list_words or
\* list_compiled_opcodes, whatever tokens follow it, the number stack and
\* the compiled opcodes are those before the line, no handler returned an
\* error, the command's handler returned Handled and every other handler
\* NotHandled, no help table was printed, and what was printed besides the
\* line is the stack (n), the opcodes (list_compiled_opcodes) or nothing
\* (list_words).
C16_DisplayCommandsChangeNothing ==
    (Dispatched /\ Head(words) \in {Id_n, Id_list_words, Id_list_compiled_opcodes}) =>
        /\ fc.number_stack = fc0.number_stack
        /\ fc.opcodes = fc0.opcodes
        /\ ~ErrorReturned
        /\ \A k \in 1..Len(results) :
               results[k] = IF command_handlers[k].command_id = Head(words)
                            THEN Ok("Handled") ELSE Ok("NotHandled")
        /\ \E k \in DisplayPositions : results[k] = Ok("Handled")
        /\ ~HelpPrinted
        /\ calls = <<>>
        /\ Tail(printed) =
               IF Head(words) = Id_n
               THEN <<[kind |-> "NumberStack", what |-> fc0.number_stack]>>
               ELSE IF Head(words) = Id_list_compiled_opcodes
               THEN <<[kind |-> "CompiledOpcodes", what |-> fc0.opcodes]>>
               ELSE <<>>

\* `n 5 abc` after `p 5 7`: the parameters are ignored, the stack 5 7 is
\* printed and kept.
C16_Witness ==
    /\ Dispatched
    /\ LastTwoLines = <<L_p_5_7, L_n_5_abc>>
    /\ Tail(words) = << <<"5">>, T_abc >>
    /\ results[2] = Ok("Handled")
    /\ fc.number_stack = <<5, 7>>
    /\ printed[2] = [kind |-> "NumberStack", what |-> <<5, 7>>]

\* The kinds of failure each collaborator produces.
ParseIntErrorKinds == {"Empty", "InvalidDigit", "PosOverflow", "NegOverflow"}
ForthErrorKinds == {"UnknownToken", "RanOutOfGas", "NumberStackUnderflow"}
IOErrorKinds == {"NotFound"}

\* C17: every error a handler of the line returned has one of the variants
\* ParseIntError, ForthError and IOError, never UnknownError, and the
\* variant is the one of the collaborator whose failure it wraps: a
\* ParseIntError comes from the closure of `p` and wraps what parsing the
\* first invalid token returned; an IOError comes from the closure of `l`
\* and wraps what reading the first unreadable file returned; a ForthError
\* comes from the closure of `l` or `i` and wraps what the engine returned
\* for the last text executed.  It is printed as returned.
C17_ErrorsCarryTheirSource ==
    /\ \A k \in 1..Len(results) :
           ~results[k].ok =>
               LET e == results[k].err
                   f == command_handlers[k].to_run
                   params == Tail(words)
               IN
               /\ e.variant \in {"ParseIntError", "ForthError", "IOError"}
               /\ e.variant = "ParseIntError" =>
                      /\ f = "p"
                      /\ e.inner.kind \in ParseIntErrorKinds
                      /\ e.inner = ParseI64(params[FirstInvalid(params)]).err
               /\ e.variant = "IOError" =>
                      /\ f = "l"
                      /\ e.inner.kind \in IOErrorKinds
                      /\ e.inner = read_to_string(params[Len(calls) + 1]).err
               /\ e.variant = "ForthError" =>
                      /\ f \in {"l", "i"}
                      /\ e.inner.kind \in ForthErrorKinds
                      /\ e.inner = DirectExecution(fc0,
                             [j \in 1..Len(calls) |-> calls[j].text]).res.err
               /\ pc # "done" => Reported(e)
    /\ \A j \in 1..Len(printed) :
           printed[j].kind = "Error" => printed[j].what.variant # "UnknownError"

\* `l a.fs none c.fs` after a line whose `p` had reported a ParseIntError:
\* the read of `none` failed and is reported as an IOError about `none`.
C17_Witness ==
    /\ Dispatched
    /\ LastTwoLines = <<L_p_neg_TooBig, L_l_a_missing_c>>
    /\ results[1] = Err([variant |-> "IOError",
                         inner |-> [kind |-> "NotFound", what |-> File_missing]])
    /\ Reported(results[1].err)
    /\ fc.number_stack = <<-3, 12>>

\* The closures of main's registry, in registration order.
RegisteredClosures ==
    << "l", "n", "p", "i", "list_words", "list_compiled_opcodes",
       "clear_number_stack" >>

\* C18: in every state the registry holds seven handlers whose ids and
\* closures are those main registered, in that order; no two have the same
\* id; so for every line at most one closure is run and at most one
\* handle_command returns something other than NotHandled.
C18_RegistryFixedAndIdsDistinct ==
    /\ Len(command_handlers) = 7
    /\ [k \in 1..Len(command_handlers) |-> command_handlers[k].command_id]
           = RegisteredIds
    /\ [k \in 1..Len(command_handlers) |-> command_handlers[k].to_run]
           = RegisteredClosures
    /\ \A j, k \in 1..Len(command_handlers) :
           j # k => command_handlers[j].command_id # command_handlers[k].command_id
    /\ Len(invoked) <= 1
    /\ Cardinality({ k \in 1..Len(results) : results[k] # Ok("NotHandled") }) <= 1
    /\ words # <<>> =>
           (Len(invoked) = 1 <=> \E k \in 1..7 : RegisteredIds[k] = Head(words))

\* After `zzz 5`, which ran nothing, `list_words 7` ran the fifth handler
\* and no other.
C18_Witness ==
    /\ Dispatched
    /\ LastTwoLines = <<L_zzz, L_list_words_7>>
    /\ Len(command_handlers) = 7
    /\ invoked = <<Invocation(5, << <<"7">> >>, fc)>>
    /\ Cardinality({ k \in 1..Len(results) : results[k] = Ok("NotHandled") }) = 6

\* Whether a token is a decimal numeral: an optional sign and one or more
\* digits.
IsNumeral(tok) ==
    LET ds == IF tok # <<>> /\ Head(tok) \in {"+", "-"} THEN Tail(tok) ELSE tok IN
    /\ ds # <<>>
    /\ \A k \in 1..Len(ds) : IsDigit(ds[k])

RECURSIVE Magnitude(_)
\* The natural number a sequence of digits denotes.
Magnitude(ds) ==
    IF ds = <<>> THEN 0
    ELSE 10 * Magnitude(SubSeq(ds, 1, Len(ds) - 1)) + DigitVal(ds[Len(ds)])

\* The integer a numeral denotes, at no particular width.
Denoted(tok) ==
    IF Head(tok) = "-" THEN 0 - Magnitude(Tail(tok))
    ELSE IF Head(tok) = "+" THEN Magnitude(Tail(tok))
    ELSE Magnitude(tok)

InI64(x) == I64_MIN <= x /\ x <= I64_MAX

\* C19: after `p t1 ... tk` the stack is the one before the line followed
\* by the values pushed, one for each of the first tokens; each pushed
\* token is a numeral, the value pushed is the integer it denotes, and that
\* integer is within the i64 range.  If ti is the first token that is not
\* pushed, it is no numeral or denotes an integer out of the range; a
\* numeral above the range is reported as a ParseIntError for overflow, one
\* below it for underflow, both about ti, and nothing is pushed in its
\* place.
C19_PushOnlyInRange ==
    (Dispatched /\ Head(words) = Id_p) =>
        LET params == Tail(words)
            before == Len(fc0.number_stack)
            n == Len(fc.number_stack) - before
        IN
        /\ 0 <= n /\ n <= Len(params)
        /\ SubSeq(fc.number_stack, 1, before) = fc0.number_stack
        /\ \A k \in 1..n :
               /\ IsNumeral(params[k])
               /\ InI64(Denoted(params[k]))
               /\ fc.number_stack[before + k] = Denoted(params[k])
        /\ n = Len(params) <=> results[3] = Ok("Handled")
        /\ n < Len(params) =>
               LET t == params[n + 1] IN
               /\ ~(IsNumeral(t) /\ InI64(Denoted(t)))
               /\ ~results[3].ok
               /\ results[3].err.variant = "ParseIntError"
               /\ results[3].err.inner.what = t
               /\ (IsNumeral(t) /\ Denoted(t) > I64_MAX)
                      => results[3].err.inner.kind = "PosOverflow"
               /\ (IsNumeral(t) /\ Denoted(t) < I64_MIN)
                      => results[3].err.inner.kind = "NegOverflow"

\* `p` with the least i64, the greatest i64 and the integer below the
\* least: the first two are pushed as written, the third is reported.
C19_Witness ==
    /\ Dispatched
    /\ words = <<Id_p, T_Min, T_Max, T_TooSmall>>
    /\ fc.number_stack = fc0.number_stack \o <<I64_MIN, I64_MAX>>
    /\ results[3] = Err(FromParseIntError(Failure("NegOverflow", T_TooSmall)))

\* C20: after a line that is `p` or `l` alone, the handler of the command
\* returned Handled, no handler returned an error, the engine is as it was
\* before the line, no execute_string call was made, and only the line
\* itself was printed: no error report and no help table.
C20_NoParametersIsHandled ==
    (Dispatched /\ words \in { <<Id_p>>, <<Id_l>> }) =>
        /\ results[IF Head(words) = Id_l THEN 1 ELSE 3] = Ok("Handled")
        /\ ~ErrorReturned
        /\ fc = fc0
        /\ calls = <<>>
        /\ Len(invoked) = 1
        /\ invoked[1].parameters = <<>>
        /\ printed = <<[kind |-> "Line", what |-> LastLine]>>

\* `l` alone after `p 5 7`: handled, the stack is still 5 7, nothing but
\* the line is printed.
C20_Witness ==
    /\ Dispatched
    /\ LastTwoLines = <<L_p_5_7, L_l>>
    /\ words = <<Id_l>>
    /\ results[1] = Ok("Handled")
    /\ fc.number_stack = <<5, 7>>
    /\ ~HelpPrinted

====
